---------------------------- MODULE Spec2Model ----------------------------
(***************************************************************************)
(* CP2130 USB-to-SPI/GPIO bridge driver.                                   *)
(*                                                                         *)
(* The session object (lib.rs, Cp2130) wraps the device state `Inner` in   *)
(* one Arc<Mutex<..>>.  Every public operation locks the mutex, runs one   *)
(* function of the device layer (device.rs) and unlocks on return.  The    *)
(* USB stack is the environment: a physical transfer is issued (it is "in  *)
(* flight") and later completes with a result the stack chooses.           *)
(***************************************************************************)
EXTENDS Integers, Sequences, FiniteSets, TLC

VARIABLES
    gpio_allocated,   \* Inner.gpio_allocated: one flag per GPIO pin
    mutex,            \* the Mutex around Inner: holder (0 = free), poisoned
    handles,          \* live InputPin / OutputPin objects
    spis,             \* number of live Spi objects
    pc,               \* per caller: position in the current operation
    op,               \* per caller: the operation called and its arguments
    loc,              \* per caller: locals of the running device function
    res,              \* per caller: what the last operation returned
    inflight,         \* physical transfers issued and not yet completed
    ctor,             \* the run of the constructor (device.rs, Cp2130::new)
    codec             \* one application of a codec function: input and output

vars == <<gpio_allocated, mutex, handles, spis, pc, op, loc, res,
          inflight, ctor, codec>>

-----------------------------------------------------------------------------
(* Bounds of the exploration *)

MaxHandles == 2        \* allocation flags set in one run
MaxSpi == 2            \* Spi objects alive at once
MaxReadLen == 131      \* longest buffer given to spi_read
MaxCount == 4          \* the per-operation transfer counters saturate here
MaxEndpoints == 3      \* endpoint descriptors in a descriptor tree
MaxOps == 2            \* operations in one Transactional::exec list
MaxWriteLen == 2       \* longest buffer given to spi_write and spi_write_read alone

Threads == {1, 2}        \* concurrent callers of one session

-----------------------------------------------------------------------------
(* Program constants *)

GpioTableLen == 11     \* length of Inner.gpio_allocated
MaxPin == 10           \* assert!(pin <= 10)
ChunkSize == 64        \* bulk read chunk in spi_read

TransferCommand_Read == 0
TransferCommand_Write == 1
TransferCommand_WriteRead == 2

Commands_GetGpioValues == 32
Commands_GetReadOnlyVersion == 17
Commands_SetGpioModeAndLevel == 35

GpioModes == {"Input", "OpenDrain", "PushPull"}
GpioLevelNames == {"Low", "High"}

\* an encoding in which PushPull shares the code of OpenDrain
GpioModeCode_collapsed(m) == CASE m = "Input" -> 0 [] m = "OpenDrain" -> 1 [] m = "PushPull" -> 1

GpioModeCode(m) == CASE m = "Input" -> 0 [] m = "OpenDrain" -> 1 [] m = "PushPull" -> 2
GpioLevelCode(l) == CASE l = "Low" -> 0 [] l = "High" -> 1

Pins == 0..(GpioTableLen - 1)

-----------------------------------------------------------------------------
(* Byte order helpers (byteorder crate as used by device.rs).  A u32 is   *)
(* kept as two 16-bit limbs so that the whole range 0..2^32-1 is covered.  *)

Limb == 256 * 256

AsU32(n) == [hi |-> (n \div Limb) % Limb, lo |-> n % Limb]

\* the length written most significant byte first
LE_write_u32_big_endian(w) == << w.hi \div 256, w.hi % 256, w.lo \div 256, w.lo % 256 >>

LE_write_u32(w) == << w.lo % 256, w.lo \div 256, w.hi % 256, w.hi \div 256 >>

LE_read_u32(b) == [hi |-> b[3] + 256 * b[4], lo |-> b[1] + 256 * b[2]]

LE_read_u16(b) == b[1] + 256 * b[2]

\* the two response bytes read least significant byte first
BE_read_u16_little_endian(b) == b[1] + 256 * b[2]

BE_read_u16(b) == 256 * b[1] + b[2]

Zeros(n) == [i \in 1..n |-> 0]

\* let mut cmd = [0u8; 8]; cmd[2] = op; LE::write_u32(&mut cmd[4..], len)
BulkHeader(code, w) == <<0, 0, code, 0>> \o LE_write_u32(w)

-----------------------------------------------------------------------------
(* The session built by Cp2130::new on the real chip: bulk OUT endpoint 1, *)
(* bulk IN endpoint 0x82, hard-coded control endpoint.                     *)

HardCodedControl == [config |-> 1, iface |-> 0, setting |-> 0, address |-> 0]

SessionEndpoints ==
    [control |-> HardCodedControl,
     write |-> [config |-> 1, iface |-> 0, setting |-> 0, address |-> 1],
     read |-> [config |-> 1, iface |-> 0, setting |-> 0, address |-> 130]]

-----------------------------------------------------------------------------
(* Values of the per-caller variables *)

NoOp ==
    [api |-> "none", inner |-> "none", pin |-> 0, mode |-> "Input",
     level |-> "Low", len |-> 0, buf |-> <<>>, hid |-> 0, rest |-> <<>>,
     ops |-> <<>>, pos |-> 0]

NoLoc ==
    [index |-> 0, nreads |-> 0, lastReq |-> 0, hdrs |-> 0, ios |-> 0,
     short |-> FALSE]

NoRes == [kind |-> "none", val |-> 0, flag |-> FALSE]

Result(k) == [kind |-> k, val |-> 0, flag |-> FALSE]
OkVal(v) == [kind |-> "Ok", val |-> v, flag |-> FALSE]
OkFlag(b) == [kind |-> "Ok", val |-> 0, flag |-> b]

Bump(c) == IF c < MaxCount THEN c + 1 ELSE c

\* Option<Endpoint> as a sequence: <<>> is None, <<e>> is Some(e)
NoCtor ==
    [stage |-> "off", tree |-> <<>>, i |-> 0, control |-> <<>>, write |-> <<>>,
     read |-> <<>>, who |-> "none", calls |-> <<>>, result |-> "none",
     endpoints |-> <<>>]

NoCodec ==
    [fn |-> "none", code |-> 0, len |-> [hi |-> 0, lo |-> 0], buff |-> <<0, 0>>,
     pin |-> 0, done |-> FALSE, header |-> <<>>, values |-> 0, level |-> FALSE,
     mode |-> "Input", lvl |-> "Low", cmd |-> <<>>]

-----------------------------------------------------------------------------
(* The mutex (std::sync::Mutex): lock() blocks while another caller holds  *)
(* it; a panic while it is held poisons it; lock().unwrap() on a poisoned  *)
(* mutex panics.                                                           *)

\* a lock that never makes a caller wait
MutexFree_never_waits == TRUE

MutexFree == mutex.holder = 0

\* a loop that goes on to the next operation whatever the last one returned
ExecGoesOn_after_error(r, o) == o.rest # <<>>

\* for o in operations { .. => self.write(w)?, .. }: the loop goes on after
\* an Ok while operations are left
ExecGoesOn(r, o) == r.kind = "Ok" /\ o.rest # <<>>

\* leaving the operation: the guard is dropped, the result goes to the
\* caller.  Transactional::exec goes on with its next operation after an Ok.
Return(t, r) ==
    /\ mutex' = [mutex EXCEPT !.holder = 0]
    /\ IF ExecGoesOn(r, op[t])
       THEN /\ op' = [op EXCEPT ![t].inner = Head(op[t].rest).inner,
                                ![t].len = Head(op[t].rest).len,
                                ![t].buf = Head(op[t].rest).buf,
                                ![t].rest = Tail(op[t].rest),
                                ![t].pos = @ + 1]
            /\ pc' = [pc EXCEPT ![t] = "lock"]
            /\ res' = res
       ELSE /\ op' = [op EXCEPT ![t] = NoOp]
            /\ pc' = [pc EXCEPT ![t] = "idle"]
            /\ res' = [res EXCEPT ![t] = r]
    /\ loc' = [loc EXCEPT ![t] = NoLoc]

\* a guard that would be dropped during unwinding without marking the mutex
Unwind_without_poison(t) ==
    /\ mutex' = [mutex EXCEPT !.holder = 0]
    /\ op' = [op EXCEPT ![t] = NoOp]
    /\ pc' = [pc EXCEPT ![t] = "idle"]
    /\ res' = [res EXCEPT ![t] = Result("Panic")]
    /\ loc' = [loc EXCEPT ![t] = NoLoc]

\* a panic inside the critical section: the guard is dropped during
\* unwinding and marks the mutex poisoned
Unwind(t) ==
    /\ mutex' = [holder |-> 0, poisoned |-> TRUE]
    /\ op' = [op EXCEPT ![t] = NoOp]
    /\ pc' = [pc EXCEPT ![t] = "idle"]
    /\ res' = [res EXCEPT ![t] = Result("Panic")]
    /\ loc' = [loc EXCEPT ![t] = NoLoc]

\* self.inner.lock().unwrap()
Lock(t) ==
    /\ pc[t] = "lock"
    /\ MutexFree
    /\ IF mutex.poisoned
       THEN /\ pc' = [pc EXCEPT ![t] = "idle"]
            /\ res' = [res EXCEPT ![t] = Result("Panic")]
            /\ op' = [op EXCEPT ![t] = NoOp]
            /\ mutex' = mutex
       ELSE /\ pc' = [pc EXCEPT ![t] = "held"]
            /\ res' = res
            /\ op' = op
            /\ mutex' = [mutex EXCEPT !.holder = t]
    /\ loc' = [loc EXCEPT ![t] = NoLoc]
    /\ UNCHANGED <<gpio_allocated, handles, spis, inflight, ctor, codec>>

-----------------------------------------------------------------------------
(* The transport (rusb DeviceHandle): issuing a transfer                   *)

Xfer(t, kind, request, data, req) ==
    [owner |-> t, kind |-> kind, ep |-> SessionEndpoints.write.address,
     request |-> request, data |-> data, req |-> req, status |-> "pending"]

Issue(t, x, label) ==
    /\ inflight' = inflight \cup {x}
    /\ pc' = [pc EXCEPT ![t] = label]

Mine(t) == {x \in inflight : x.owner = t}

\* a transport that never reports an error
Outcome_never_fails(x) == {TRUE}

\* whether the call returns Ok (TRUE) or Err (FALSE): open while the
\* transfer is pending, Err once the transport has failed it
Outcome(x) == IF x.status = "failed" THEN {FALSE} ELSE BOOLEAN

\* the transport fails the transfer a caller waits for (timeout, stall,
\* disconnect): the pending call will return Err(rusb::Error)
TransferFails(t) ==
    /\ \E x \in Mine(t) :
          /\ x.status = "pending"
          /\ inflight' = (inflight \ {x}) \cup {[x EXCEPT !.status = "failed"]}
    /\ UNCHANGED <<gpio_allocated, mutex, handles, spis, pc, op, loc, res, ctor, codec>>

\* what a bulk read of req bytes may deliver
ReadCounts == [req \in 0..MaxReadLen |-> {k \in {0, 1, req} : k <= req}]

\* the coarser choice used with concurrent callers: nothing or everything
ZeroOrAll == [req \in 0..MaxReadLen |-> {0, req}]

\* the two bytes a GetGpioValues / GetReadOnlyVersion response may carry
CtlBytes == {<<0, 0>>, <<0, 8>>, <<64, 0>>, <<255, 255>>}

-----------------------------------------------------------------------------
(* GPIO claims: Cp2130::gpio_out and Cp2130::gpio_in (lib.rs)              *)

\* a flag check that never finds the pin taken
GpioBusy_never(index) == FALSE

\* if inner.gpio_allocated[index as usize]
GpioBusy(index) == gpio_allocated[index]

\* a range check that lets every index through
PinInRange_any(pin) == TRUE

\* assert!(pin <= 10)
PinInRange(pin) == pin <= MaxPin

\* let cmd = [pin, mode as u8, level as u8]
GpioModeLevelCmd(pin, mode, level) == <<pin, GpioModeCode(mode), GpioLevelCode(level)>>

\* a write that always names pin 0
SetGpioXfer_pin0(t, pin, mode, level) ==
    Xfer(t, "write_control", Commands_SetGpioModeAndLevel,
         GpioModeLevelCmd(0, mode, level), 0)

SetGpioXfer(t, pin, mode, level) ==
    Xfer(t, "write_control", Commands_SetGpioModeAndLevel,
         GpioModeLevelCmd(pin, mode, level), 0)

ClaimMode(o) == IF o.inner = "gpio_in" THEN "Input" ELSE o.mode
ClaimLevel(o) == IF o.inner = "gpio_in" THEN "Low" ELSE o.level

\* the exploration stops claiming new pins once MaxHandles flags are set
ClaimAllowed(index) ==
    IF index >= GpioTableLen THEN TRUE
    ELSE IF gpio_allocated[index] THEN TRUE
    ELSE Cardinality({p \in Pins : gpio_allocated[p]}) < MaxHandles

\* the pin objects alive for a pin
Claiming(index) == {h \in handles : h.index = index}

\* the calls
gpio_out(t, index, mode, level) ==
    /\ pc[t] = "idle"
    /\ ClaimAllowed(index)
    /\ op' = [op EXCEPT ![t] = [NoOp EXCEPT !.api = "gpio_out", !.inner = "gpio_out",
                                           !.pin = index, !.mode = mode, !.level = level]]
    /\ pc' = [pc EXCEPT ![t] = "lock"]
    /\ res' = [res EXCEPT ![t] = NoRes]
    /\ loc' = [loc EXCEPT ![t] = NoLoc]
    /\ UNCHANGED <<gpio_allocated, mutex, handles, spis, inflight, ctor, codec>>

gpio_in(t, index) ==
    /\ pc[t] = "idle"
    /\ ClaimAllowed(index)
    /\ op' = [op EXCEPT ![t] = [NoOp EXCEPT !.api = "gpio_in", !.inner = "gpio_in",
                                           !.pin = index]]
    /\ pc' = [pc EXCEPT ![t] = "lock"]
    /\ res' = [res EXCEPT ![t] = NoRes]
    /\ loc' = [loc EXCEPT ![t] = NoLoc]
    /\ UNCHANGED <<gpio_allocated, mutex, handles, spis, inflight, ctor, codec>>

\* from the flag check to the write_control call of set_gpio_mode_level
gpio_claim_check(t) ==
    /\ pc[t] = "held"
    /\ op[t].inner \in {"gpio_out", "gpio_in"}
    /\ LET index == op[t].pin IN
       IF index >= GpioTableLen
       THEN \* index out of bounds
            /\ Unwind(t)
            /\ inflight' = inflight
       ELSE IF GpioBusy(index)
       THEN /\ Return(t, Result("GpioInUse"))
            /\ inflight' = inflight
       ELSE IF ~PinInRange(index)
       THEN /\ Unwind(t)
            /\ inflight' = inflight
       ELSE /\ Issue(t, SetGpioXfer(t, index, ClaimMode(op[t]), ClaimLevel(op[t])), "claim_wr")
            /\ loc' = [loc EXCEPT ![t].ios = Bump(@)]
            /\ UNCHANGED <<mutex, op, res>>
    /\ UNCHANGED <<gpio_allocated, handles, spis, ctor, codec>>

\* a claim that marks the whole table
Allocate_all(index) == [p \in Pins |-> TRUE]

\* inner.gpio_allocated[index as usize] = true
Allocate(index) == [gpio_allocated EXCEPT ![index] = TRUE]

\* write_control returned: `?`, then the flag is set and the pin object built
gpio_claim_finish(t) ==
    /\ pc[t] = "claim_wr"
    /\ \E x \in Mine(t) : \E ok \in Outcome(x) :
          /\ inflight' = inflight \ {x}
          /\ IF ok
             THEN /\ gpio_allocated' = Allocate(op[t].pin)
                  /\ handles' = handles \cup
                        {[ser |-> Cardinality(Claiming(op[t].pin)) + 1, index |-> op[t].pin,
                          kind |-> IF op[t].inner = "gpio_in" THEN "InputPin" ELSE "OutputPin",
                          mode |-> ClaimMode(op[t])]}
                  /\ Return(t, OkVal(0))
             ELSE /\ Return(t, Result("Usb"))
                  /\ UNCHANGED <<gpio_allocated, handles>>
    /\ UNCHANGED <<spis, ctor, codec>>

\* a pin object goes out of scope: InputPin and OutputPin have no Drop
\* implementation, only their fields are released
DropPin(h) ==
    /\ h \in handles
    /\ \A t \in Threads : pc[t] = "idle" \/ op[t].hid # h.ser \/ op[t].pin # h.index
    /\ handles' = handles \ {h}
    /\ UNCHANGED <<gpio_allocated, mutex, spis, pc, op, loc, res, inflight, ctor, codec>>

-----------------------------------------------------------------------------
(* GPIO level and mode operations (device.rs)                              *)

RECURSIVE Pow2(_)
Pow2(k) == IF k = 0 THEN 1 ELSE 2 * Pow2(k - 1)

Bit(v, k) == (v \div Pow2(k)) % 2 = 1

\* bitflags! GpioLevels: GPIO_0 = 1 << 3 ... GPIO_10 = 1 << 14
GpioLevels == <<3, 4, 5, 6, 7, 8, 10, 11, 12, 13, 14>>

GpioFlagBit(pin) == GpioLevels[pin + 1]

RECURSIVE SumBits(_, _)
SumBits(v, ks) ==
    IF ks = {} THEN 0
    ELSE LET k == CHOOSE x \in ks : TRUE
         IN (IF Bit(v, k) THEN Pow2(k) ELSE 0) + SumBits(v, ks \ {k})

\* GpioLevels::from_bits_truncate
from_bits_truncate(v) == SumBits(v, {GpioLevels[i] : i \in 1..Len(GpioLevels)})

\* levels.contains(flag)
contains(levels, k) == Bit(levels, k)

\* let values = BE::read_u16(&buff); Ok(GpioLevels::from_bits_truncate(values))
DecodeGpioValues(buff) == from_bits_truncate(BE_read_u16(buff))

\* match pin { 0 => levels.contains(GpioLevels::GPIO_0), ... }
PinLevel(levels, pin) == contains(levels, GpioFlagBit(pin))

StartOp(t, o) ==
    /\ pc[t] = "idle"
    /\ op' = [op EXCEPT ![t] = o]
    /\ pc' = [pc EXCEPT ![t] = "lock"]
    /\ res' = [res EXCEPT ![t] = NoRes]
    /\ loc' = [loc EXCEPT ![t] = NoLoc]
    /\ UNCHANGED <<gpio_allocated, mutex, handles, spis, inflight, ctor, codec>>

\* Device::set_gpio_mode_level
set_gpio_mode_level(t, pin, mode, level) ==
    StartOp(t, [NoOp EXCEPT !.api = "set_gpio_mode_level", !.inner = "set_gpio_mode_level",
                            !.pin = pin, !.mode = mode, !.level = level])

\* OutputPin::set_high / set_low
set_high(t, h) ==
    /\ h \in handles /\ h.kind = "OutputPin"
    /\ StartOp(t, [NoOp EXCEPT !.api = "set_high", !.inner = "set_gpio_mode_level",
                               !.pin = h.index, !.mode = h.mode, !.level = "High",
                               !.hid = h.ser])

set_low(t, h) ==
    /\ h \in handles /\ h.kind = "OutputPin"
    /\ StartOp(t, [NoOp EXCEPT !.api = "set_low", !.inner = "set_gpio_mode_level",
                               !.pin = h.index, !.mode = h.mode, !.level = "Low",
                               !.hid = h.ser])

\* Device::get_gpio_values / get_gpio_level
get_gpio_values(t) ==
    StartOp(t, [NoOp EXCEPT !.api = "get_gpio_values", !.inner = "get_gpio_values"])

get_gpio_level(t, pin) ==
    StartOp(t, [NoOp EXCEPT !.api = "get_gpio_level", !.inner = "get_gpio_level", !.pin = pin])

\* InputPin::is_high / is_low (is_low calls is_high and negates)
is_high(t, h) ==
    /\ h \in handles /\ h.kind = "InputPin"
    /\ StartOp(t, [NoOp EXCEPT !.api = "is_high", !.inner = "get_gpio_level",
                               !.pin = h.index, !.hid = h.ser])

is_low(t, h) ==
    /\ h \in handles /\ h.kind = "InputPin"
    /\ StartOp(t, [NoOp EXCEPT !.api = "is_low", !.inner = "get_gpio_level",
                               !.pin = h.index, !.hid = h.ser])

\* Device::version
version(t) ==
    StartOp(t, [NoOp EXCEPT !.api = "version", !.inner = "version"])

\* device.rs set_gpio_mode_level up to the write_control call
set_gpio_mode_level_issue(t) ==
    /\ pc[t] = "held"
    /\ op[t].inner = "set_gpio_mode_level"
    /\ IF ~PinInRange(op[t].pin)
       THEN /\ Unwind(t)
            /\ inflight' = inflight
       ELSE /\ Issue(t, SetGpioXfer(t, op[t].pin, op[t].mode, op[t].level), "set_wr")
            /\ loc' = [loc EXCEPT ![t].ios = Bump(@)]
            /\ UNCHANGED <<mutex, op, res>>
    /\ UNCHANGED <<gpio_allocated, handles, spis, ctor, codec>>

set_gpio_mode_level_done(t) ==
    /\ pc[t] = "set_wr"
    /\ \E x \in Mine(t) : \E ok \in Outcome(x) :
          /\ inflight' = inflight \ {x}
          /\ Return(t, IF ok THEN OkVal(0) ELSE Result("Usb"))
    /\ UNCHANGED <<gpio_allocated, handles, spis, ctor, codec>>

\* get_gpio_level (assert first), get_gpio_values and version: up to read_control
read_control_issue(t) ==
    /\ pc[t] = "held"
    /\ op[t].inner \in {"get_gpio_level", "get_gpio_values", "version"}
    /\ IF op[t].inner = "get_gpio_level" /\ ~PinInRange(op[t].pin)
       THEN /\ Unwind(t)
            /\ inflight' = inflight
       ELSE /\ Issue(t, Xfer(t, "read_control",
                             IF op[t].inner = "version" THEN Commands_GetReadOnlyVersion
                                                         ELSE Commands_GetGpioValues,
                             <<>>, 2), "ctl_rd")
            /\ loc' = [loc EXCEPT ![t].ios = Bump(@)]
            /\ UNCHANGED <<mutex, op, res>>
    /\ UNCHANGED <<gpio_allocated, handles, spis, ctor, codec>>

ControlReadResult(o, buff) ==
    CASE o.inner = "version" -> OkVal(LE_read_u16(buff))
      [] o.inner = "get_gpio_values" -> OkVal(DecodeGpioValues(buff))
      [] o.inner = "get_gpio_level" ->
            LET v == PinLevel(DecodeGpioValues(buff), o.pin)
            IN OkFlag(IF o.api = "is_low" THEN ~v ELSE v)

read_control_done(t, bytes) ==
    /\ pc[t] = "ctl_rd"
    /\ \E x \in Mine(t), buff \in bytes : \E ok \in Outcome(x) :
          /\ inflight' = inflight \ {x}
          /\ Return(t, IF ok THEN ControlReadResult(op[t], buff) ELSE Result("Usb"))
    /\ UNCHANGED <<gpio_allocated, handles, spis, ctor, codec>>

-----------------------------------------------------------------------------
(* SPI transfers (device.rs) and their entry points (lib.rs)               *)

\* Device::spi_read / spi_write / spi_write_read
spi_read(t, n) ==
    StartOp(t, [NoOp EXCEPT !.api = "spi_read", !.inner = "spi_read", !.len = n])

spi_write(t, buff) ==
    StartOp(t, [NoOp EXCEPT !.api = "spi_write", !.inner = "spi_write", !.buf = buff])

spi_write_read(t, buff_out, n) ==
    StartOp(t, [NoOp EXCEPT !.api = "spi_write_read", !.inner = "spi_write_read",
                            !.buf = buff_out, !.len = n])

\* a chunk size that ignores how much of the buffer is left
Remainder_always_full(len, index) == ChunkSize

\* let remainder = if buff.len() > index + 64 { 64 } else { buff.len() - index }
Remainder(len, index) == IF len > index + ChunkSize THEN ChunkSize ELSE len - index

\* while index < buff.len()
ReadMore(len, index) == index < len

\* an index that moves on by a whole chunk whatever was read
Advance_full_chunk(index, n) == index + ChunkSize

\* index += n
Advance(index, n) == index + n

\* spi_read: the header goes out
spi_read_header(t) ==
    /\ pc[t] = "held"
    /\ op[t].inner = "spi_read"
    /\ Issue(t, Xfer(t, "write_bulk", 0,
                     BulkHeader(TransferCommand_Read, AsU32(op[t].len)), 0), "rd_hdr")
    /\ loc' = [loc EXCEPT ![t].ios = Bump(@), ![t].hdrs = Bump(@)]
    /\ UNCHANGED <<gpio_allocated, mutex, handles, spis, op, res, ctor, codec>>

\* write_bulk returned: `?`, then let mut index = 0
spi_read_header_done(t) ==
    /\ pc[t] = "rd_hdr"
    /\ \E x \in Mine(t) : \E ok \in Outcome(x) :
          /\ inflight' = inflight \ {x}
          /\ IF ok
             THEN /\ pc' = [pc EXCEPT ![t] = "rd_loop"]
                  /\ loc' = [loc EXCEPT ![t].index = 0]
                  /\ UNCHANGED <<mutex, op, res>>
             ELSE /\ Return(t, Result("Usb"))
    /\ UNCHANGED <<gpio_allocated, handles, spis, ctor, codec>>

\* the loop head: another chunk is requested, or Ok(index)
spi_read_loop(t) ==
    /\ pc[t] = "rd_loop"
    /\ IF ReadMore(op[t].len, loc[t].index)
       THEN LET remainder == Remainder(op[t].len, loc[t].index) IN
            /\ Issue(t, Xfer(t, "read_bulk", 0, <<>>, remainder), "rd_chunk")
            /\ loc' = [loc EXCEPT ![t].ios = Bump(@), ![t].nreads = Bump(@),
                                  ![t].lastReq = remainder]
            /\ UNCHANGED <<mutex, op, res>>
       ELSE /\ Return(t, OkVal(loc[t].index))
            /\ inflight' = inflight
    /\ UNCHANGED <<gpio_allocated, handles, spis, ctor, codec>>

\* read_bulk returned n bytes or an error
spi_read_chunk_done(t, Counts) ==
    /\ pc[t] = "rd_chunk"
    /\ \E x \in Mine(t) :
          /\ inflight' = inflight \ {x}
          /\ \/ \E n \in {k \in Counts[x.req] : TRUE \in Outcome(x)} :
                   /\ loc' = [loc EXCEPT ![t].index = Advance(@, n),
                                         ![t].short = @ \/ n < x.req]
                   /\ pc' = [pc EXCEPT ![t] = "rd_loop"]
                   /\ UNCHANGED <<mutex, op, res>>
             \/ /\ FALSE \in Outcome(x)
                /\ Return(t, Result("Usb"))
    /\ UNCHANGED <<gpio_allocated, handles, spis, ctor, codec>>

\* a command that leaves the payload behind
BulkCmd_header_only(code, buff) == BulkHeader(code, AsU32(Len(buff)))

\* spi_write and spi_write_read: header and payload go out as one transfer
BulkCmd(code, buff) == BulkHeader(code, AsU32(Len(buff))) \o buff

spi_write_issue(t) ==
    /\ pc[t] = "held"
    /\ op[t].inner \in {"spi_write", "spi_write_read"}
    /\ Issue(t, Xfer(t, "write_bulk", 0,
                     BulkCmd(IF op[t].inner = "spi_write" THEN TransferCommand_Write
                                                          ELSE TransferCommand_WriteRead,
                             op[t].buf), 0), "wr")
    /\ loc' = [loc EXCEPT ![t].ios = Bump(@), ![t].hdrs = Bump(@)]
    /\ UNCHANGED <<gpio_allocated, mutex, handles, spis, op, res, ctor, codec>>

\* a read that asks for one chunk at most
WriteReadRequest_chunked(len) == IF len > ChunkSize THEN ChunkSize ELSE len

\* self.handle.read_bulk(.., buff_in, ..): the whole of buff_in is asked for
WriteReadRequest(len) == len

\* write_bulk returned: spi_write is finished, spi_write_read reads once
spi_write_done(t) ==
    /\ pc[t] = "wr"
    /\ \E x \in Mine(t) : \E ok \in Outcome(x) :
          IF ~ok
          THEN /\ inflight' = inflight \ {x}
               /\ Return(t, Result("Usb"))
          ELSE IF op[t].inner = "spi_write"
          THEN /\ inflight' = inflight \ {x}
               /\ Return(t, OkVal(0))
          ELSE /\ inflight' = (inflight \ {x}) \cup
                                 {Xfer(t, "read_bulk", 0, <<>>, WriteReadRequest(op[t].len))}
               /\ pc' = [pc EXCEPT ![t] = "wrrd_rd"]
               /\ loc' = [loc EXCEPT ![t].ios = Bump(@), ![t].nreads = Bump(@),
                                     ![t].lastReq = WriteReadRequest(op[t].len)]
               /\ UNCHANGED <<mutex, op, res>>
    /\ UNCHANGED <<gpio_allocated, handles, spis, ctor, codec>>

spi_write_read_done(t, Counts) ==
    /\ pc[t] = "wrrd_rd"
    /\ \E x \in Mine(t) :
          /\ inflight' = inflight \ {x}
          /\ \/ \E n \in {k \in Counts[x.req] : TRUE \in Outcome(x)} : Return(t, OkVal(n))
             \/ /\ FALSE \in Outcome(x)
                /\ Return(t, Result("Usb"))
    /\ UNCHANGED <<gpio_allocated, handles, spis, ctor, codec>>

-----------------------------------------------------------------------------
(* The Spi object (lib.rs)                                                 *)

Commands_SetSpiWord == 49
Commands_ResetDevice == 16

SpiApis == {"transfer", "transfer_inplace", "write", "read", "exec"}

\* an Spi object is free for a &mut self call
SpiFree == Cardinality({t \in Threads : pc[t] # "idle" /\ op[t].api \in SpiApis}) < spis

\* Cp2130::spi and Cp2130::reset
spi(t) ==
    /\ spis < MaxSpi
    /\ StartOp(t, [NoOp EXCEPT !.api = "spi", !.inner = "spi_configure"])

reset(t) ==
    StartOp(t, [NoOp EXCEPT !.api = "reset", !.inner = "reset"])

\* Inner::spi_configure and Inner::reset: one vendor control write
inner_control_issue(t) ==
    /\ pc[t] = "held"
    /\ op[t].inner \in {"spi_configure", "reset"}
    /\ \/ /\ Issue(t, Xfer(t, "write_control",
                           IF op[t].inner = "reset" THEN Commands_ResetDevice
                                                    ELSE Commands_SetSpiWord,
                           <<>>, 0), "inner_wr")
          /\ loc' = [loc EXCEPT ![t].ios = Bump(@)]
          /\ UNCHANGED <<mutex, op, res>>
       \/ /\ op[t].inner = "spi_configure"
          /\ Return(t, Result("InvalidIndex"))
          /\ inflight' = inflight
    /\ UNCHANGED <<gpio_allocated, handles, spis, ctor, codec>>

inner_control_done(t) ==
    /\ pc[t] = "inner_wr"
    /\ \E x \in Mine(t) : \E ok \in Outcome(x) :
          /\ inflight' = inflight \ {x}
          /\ Return(t, IF ok THEN OkVal(0) ELSE Result("Usb"))
          /\ spis' = IF ok /\ op[t].api = "spi" THEN spis + 1 ELSE spis
    /\ UNCHANGED <<gpio_allocated, handles, ctor, codec>>

DropSpi ==
    /\ spis > 0
    /\ Cardinality({t \in Threads : pc[t] # "idle" /\ op[t].api \in SpiApis}) < spis
    /\ spis' = spis - 1
    /\ UNCHANGED <<gpio_allocated, mutex, handles, pc, op, loc, res, inflight, ctor, codec>>

\* the device call each embedded-hal method makes
SpiMethod(o) ==
    CASE o.kind = "Write" -> [inner |-> "spi_write", len |-> 0, buf |-> o.data]
      [] o.kind = "Transfer" -> [inner |-> "spi_write_read", len |-> o.n, buf |-> o.data]
      [] o.kind = "TransferInplace" ->
            [inner |-> "spi_write_read", len |-> Len(o.data), buf |-> o.data]
      [] o.kind = "Read" -> [inner |-> "spi_write_read", len |-> o.n, buf |-> Zeros(o.n)]

SpiCall(t, api, o) ==
    /\ SpiFree
    /\ StartOp(t, [NoOp EXCEPT !.api = api, !.inner = SpiMethod(o).inner,
                               !.len = SpiMethod(o).len, !.buf = SpiMethod(o).buf])

Spi_transfer(t, n, out) == SpiCall(t, "transfer", [kind |-> "Transfer", n |-> n, data |-> out])

Spi_transfer_inplace(t, buff) ==
    SpiCall(t, "transfer_inplace", [kind |-> "TransferInplace", n |-> 0, data |-> buff])

Spi_write(t, words) == SpiCall(t, "write", [kind |-> "Write", n |-> 0, data |-> words])

Spi_read(t, n) == SpiCall(t, "read", [kind |-> "Read", n |-> n, data |-> <<>>])

\* Transactional::exec: for o in operations { ...? }  Ok(())
Spi_exec(t, operations) ==
    /\ SpiFree
    /\ IF operations = <<>>
       THEN /\ pc[t] = "idle"
            /\ op' = [op EXCEPT ![t] = NoOp]
            /\ res' = [res EXCEPT ![t] = OkVal(0)]
            /\ loc' = [loc EXCEPT ![t] = NoLoc]
            /\ UNCHANGED <<gpio_allocated, mutex, handles, spis, pc, inflight, ctor, codec>>
       ELSE StartOp(t, [NoOp EXCEPT !.api = "exec",
                                    !.ops = operations,
                                    !.pos = 1,
                                    !.inner = SpiMethod(operations[1]).inner,
                                    !.len = SpiMethod(operations[1]).len,
                                    !.buf = SpiMethod(operations[1]).buf,
                                    !.rest = [i \in 1..(Len(operations) - 1) |->
                                                 SpiMethod(operations[i + 1])]])

-----------------------------------------------------------------------------
(* The concurrent session: two callers, every operation of the session and *)
(* of its capability objects, small arguments.                             *)

TestPins == {10, 11}
ReadLens == {0, 65}
WriteBufs == {<<7>>}
TwoBytes == {<<0, 0>>, <<64, 0>>}
Operations == {[kind |-> k, n |-> 1, data |-> <<7>>] : k \in {"Write", "Read"}}

RECURSIVE SeqsUpTo(_, _)
SeqsUpTo(S, n) ==
    IF n = 0 THEN {<<>>}
    ELSE LET shorter == SeqsUpTo(S, n - 1)
         IN shorter \cup {Append(q, x) : q \in shorter, x \in S}

Init ==
    /\ gpio_allocated = [p \in Pins |-> FALSE]
    /\ mutex = [holder |-> 0, poisoned |-> FALSE]
    /\ handles = {}
    /\ spis = 0
    /\ pc = [t \in Threads |-> "idle"]
    /\ op = [t \in Threads |-> NoOp]
    /\ loc = [t \in Threads |-> NoLoc]
    /\ res = [t \in Threads |-> NoRes]
    /\ inflight = {}
    /\ ctor = NoCtor
    /\ codec = NoCodec

\* the steps inside the device layer, common to every specification
DeviceStep(t, Counts, bytes) ==
    \/ Lock(t)
    \/ gpio_claim_check(t)
    \/ gpio_claim_finish(t)
    \/ set_gpio_mode_level_issue(t)
    \/ set_gpio_mode_level_done(t)
    \/ read_control_issue(t)
    \/ read_control_done(t, bytes)
    \/ spi_read_header(t)
    \/ spi_read_header_done(t)
    \/ spi_read_loop(t)
    \/ spi_read_chunk_done(t, Counts)
    \/ spi_write_issue(t)
    \/ spi_write_done(t)
    \/ spi_write_read_done(t, Counts)
    \/ inner_control_issue(t)
    \/ inner_control_done(t)

Next ==
    \/ \E t \in Threads, index \in TestPins : gpio_out(t, index, "PushPull", "High")
    \/ \E t \in Threads, index \in TestPins : gpio_in(t, index)
    \/ \E h \in handles : DropPin(h)
    \/ \E t \in Threads, pin \in TestPins : set_gpio_mode_level(t, pin, "OpenDrain", "Low")
    \/ \E t \in Threads, h \in handles : set_high(t, h)
    \/ \E t \in Threads, h \in handles : set_low(t, h)
    \/ \E t \in Threads : get_gpio_values(t)
    \/ \E t \in Threads, pin \in TestPins : get_gpio_level(t, pin)
    \/ \E t \in Threads, h \in handles : is_high(t, h)
    \/ \E t \in Threads, h \in handles : is_low(t, h)
    \/ \E t \in Threads : version(t)
    \/ \E t \in Threads, n \in ReadLens : spi_read(t, n)
    \/ \E t \in Threads, buff \in WriteBufs : spi_write(t, buff)
    \/ \E t \in Threads, buff \in WriteBufs : spi_write_read(t, buff, 1)
    \/ \E t \in Threads : spi(t)
    \/ \E t \in Threads : reset(t)
    \/ DropSpi
    \/ \E t \in Threads, out \in WriteBufs : Spi_transfer(t, 1, out)
    \/ \E t \in Threads, buff \in WriteBufs : Spi_transfer_inplace(t, buff)
    \/ \E t \in Threads, words \in WriteBufs : Spi_write(t, words)
    \/ \E t \in Threads : Spi_read(t, 1)
    \/ \E t \in Threads, operations \in SeqsUpTo(Operations, MaxOps) : Spi_exec(t, operations)
    \/ \E t \in Threads : DeviceStep(t, ZeroOrAll, TwoBytes)

Spec == Init /\ [][Next]_vars

-----------------------------------------------------------------------------
(* Properties of the concurrent session                                    *)

ClaimOps == {"gpio_out", "gpio_in"}

\* C1: in every reachable state each GPIO pin 0..10 is claimed by at most
\* one live pin object (InputPin or OutputPin), whatever the interleaving of
\* the callers' claims, and no pin object exists for any other index.
C1_AtMostOneHandlePerPin ==
    /\ \A p \in Pins : Cardinality(Claiming(p)) <= 1
    /\ \A h \in handles : h.index \in Pins

\* a second claim of a pin holds the lock while the first claim's object lives
C1_Witness ==
    \E h \in handles, t \in Threads :
        /\ pc[t] = "held"
        /\ op[t].inner \in ClaimOps
        /\ op[t].pin = h.index

\* the caller t leaves its operation in this step
Returns(t) == pc[t] \notin {"idle", "lock"} /\ pc'[t] = "idle"

\* C2: while an OutputPin obtained from gpio_out lives, a further gpio_out
\* or gpio_in on its pin never gets past the flag check: its next step is
\* the return of GpioInUse, and that operation has issued no transfer and
\* leaves the transport untouched.
C2_BusyWithoutIO ==
    [][\A t \in Threads :
          (/\ pc[t] \in {"held", "claim_wr"}
           /\ op[t].inner \in ClaimOps
           /\ \E h \in handles : h.kind = "OutputPin" /\ h.index = op[t].pin)
          => \/ pc'[t] = pc[t]
             \/ /\ Returns(t)
                /\ res'[t].kind = "GpioInUse"
                /\ loc[t].ios = 0
                /\ Mine(t) = {}
                /\ inflight' = inflight]_vars

\* a claim was turned down while the OutputPin of an earlier gpio_out lives
C2_Witness ==
    \E t \in Threads, h \in handles :
        /\ h.kind = "OutputPin"
        /\ res[t].kind = "GpioInUse"
        /\ inflight = {}

\* a caller is inside a transfer sequence: it has issued a transfer in the
\* operation it is running
InSequence(t) == pc[t] \notin {"idle", "lock"} /\ loc[t].ios > 0

\* C3: at most one physical transfer is in flight, and while one caller is
\* inside its transfer sequence (from its first transfer to its return) no
\* other caller has a transfer in flight or a sequence of its own under way.
C3_NotInterleaved ==
    /\ Cardinality(inflight) <= 1
    /\ \A t, u \in Threads : t # u /\ InSequence(t) => ~InSequence(u) /\ Mine(u) = {}
    /\ \A x \in inflight : InSequence(x.owner)

\* one caller is reading the second chunk of an spi_read while the other
\* caller has called an operation and waits for the lock
C3_Witness ==
    \E t, u \in Threads :
        /\ t # u
        /\ pc[t] = "rd_chunk" /\ loc[t].nreads = 2
        /\ pc[u] = "lock"

\* C4 (as claimed): a set allocation flag always belongs to a live pin
\* object, i.e. dropping the object clears the flag and frees the pin.
C4_FlagClearedOnDrop ==
    \A p \in Pins : gpio_allocated[p] => Claiming(p) # {}

\* the GPIO operations that take a pin index from the caller
PinOps == {"gpio_out", "gpio_in", "set_gpio_mode_level", "get_gpio_level"}

\* the caller t runs a GPIO operation on a pin index outside 0..10
OutOfRange(t) == pc[t] # "idle" /\ op[t].inner \in PinOps /\ op[t].pin > MaxPin

\* C10: a GPIO operation (set_gpio_mode_level, get_gpio_level, gpio_out,
\* gpio_in) given a pin index outside 0..10 ends in an abort: it only ever
\* waits for or holds the lock, it has no transfer in flight, no
\* SetGpioModeAndLevel transfer in flight carries such a pin, and the step in
\* which it leaves is a panic that returns neither Ok nor a typed error and
\* leaves the transport untouched.
C10_OutOfRangePinAborts ==
    /\ [](/\ \A t \in Threads :
                OutOfRange(t) => pc[t] \in {"lock", "held"} /\ Mine(t) = {} /\ loc[t].ios = 0
          /\ \A x \in inflight :
                x.kind = "write_control" /\ x.request = Commands_SetGpioModeAndLevel
                => x.data[1] \in 0..MaxPin)
    /\ [][\A t \in Threads :
             OutOfRange(t) /\ pc'[t] = "idle"
             => res'[t].kind = "Panic" /\ inflight' = inflight]_vars

\* one caller has aborted on an out-of-range pin while holding the lock: the
\* lock is poisoned and free, the other caller has not aborted, and nothing
\* is in flight
C10_Witness ==
    \E t \in Threads :
        /\ res[t].kind = "Panic"
        /\ \A u \in Threads \ {t} : res[u].kind # "Panic"
        /\ mutex.poisoned /\ mutex.holder = 0
        /\ inflight = {}

\* the caller t is inside a gpio_out or gpio_in, past the lock
InClaim(t) == pc[t] \in {"held", "claim_wr"} /\ op[t].inner \in ClaimOps

\* the payload a claim sends: the caller's mode and level for gpio_out,
\* Input (0) and Low (0) for gpio_in
ClaimPayload(o) ==
    IF o.inner = "gpio_in" THEN <<o.pin, 0, 0>>
    ELSE <<o.pin, GpioModeCode(o.mode), GpioLevelCode(o.level)>>

\* C12: a claim holds the lock from the flag check to its return; while its
\* write is in flight that write is its only transfer, a SetGpioModeAndLevel
\* control write for the claimed pin, and the flag is still clear; a claim
\* returns its pin object only from a successful write, having issued
\* exactly one transfer, and sets the flag and builds the object in that
\* step; no step of another caller changes the table, the lock or the
\* transport while the claim is under way.
C12_ClaimInOneLockHold ==
    /\ [](\A t \in Threads :
            /\ InClaim(t) => mutex.holder = t
            /\ InClaim(t) /\ pc[t] = "held" => Mine(t) = {} /\ loc[t].ios = 0
            /\ InClaim(t) /\ pc[t] = "claim_wr" =>
                  /\ loc[t].ios = 1
                  /\ ~gpio_allocated[op[t].pin]
                  /\ Claiming(op[t].pin) = {}
                  /\ inflight = {[owner |-> t, kind |-> "write_control",
                                  ep |-> SessionEndpoints.write.address,
                                  request |-> 35, data |-> ClaimPayload(op[t]),
                                  req |-> 0, status |-> "pending"]})
    /\ [][\A t \in Threads :
             InClaim(t) =>
                /\ pc'[t] = pc[t] =>
                      /\ gpio_allocated' = gpio_allocated
                      /\ inflight' = inflight
                      /\ mutex' = mutex
                /\ Returns(t) /\ res'[t].kind = "Ok" =>
                      /\ pc[t] = "claim_wr"
                      /\ inflight' = {}
                      /\ gpio_allocated' = [gpio_allocated EXCEPT ![op[t].pin] = TRUE]
                      /\ Cardinality(handles' \ handles) = 1
                      /\ \A h \in handles' \ handles : h.index = op[t].pin
                /\ Returns(t) /\ res'[t].kind # "Ok" =>
                      gpio_allocated' = gpio_allocated /\ handles' = handles]_vars

\* the write of a gpio_in is in flight while the other caller waits for the
\* lock with a claim of the same pin
C12_Witness ==
    \E t, u \in Threads :
        /\ t # u
        /\ pc[t] = "claim_wr" /\ op[t].inner = "gpio_in"
        /\ pc[u] = "lock" /\ op[u].inner \in ClaimOps /\ op[u].pin = op[t].pin

\* C22: a panic raised while the session lock is held poisons the lock. The
\* abort of an operation on an out-of-range pin index leaves the mutex
\* poisoned, and the mutex is only ever poisoned by such an abort of its
\* holder. Once poisoned it stays poisoned: nobody holds it again, every
\* caller that reaches lock acquisition (from the session or from a pin or
\* Spi handle sharing it) leaves there with a panic, no operation gets into
\* its body, no transfer is issued and no pin or Spi handle is handed out.
C22_PanicPoisonsLock ==
    /\ [](mutex.poisoned =>
             /\ mutex.holder = 0
             /\ inflight = {}
             /\ \A t \in Threads : pc[t] \in {"idle", "lock"})
    /\ [][/\ \A t \in Threads :
                OutOfRange(t) /\ pc[t] = "held" /\ pc'[t] # "held"
                => mutex'.poisoned /\ res'[t].kind = "Panic"
          /\ ~mutex.poisoned /\ mutex'.poisoned
                => \E t \in Threads :
                      mutex.holder = t /\ OutOfRange(t) /\ res'[t].kind = "Panic"
          /\ mutex.poisoned
                => /\ mutex' = mutex
                   /\ inflight' = {}
                   /\ gpio_allocated' = gpio_allocated
                   /\ handles' \subseteq handles
                   /\ spis' <= spis
                   /\ \A t \in Threads :
                         pc[t] = "lock" /\ pc'[t] # "lock"
                         => pc'[t] = "idle" /\ res'[t].kind = "Panic"]_vars

\* after one caller's abort poisoned the lock, the other caller's operation
\* on a live pin object has aborted too: both callers are left with a panic
\* while the pin object still exists
C22_Witness ==
    /\ mutex.poisoned
    /\ handles # {}
    /\ \A t \in Threads : res[t].kind = "Panic" /\ pc[t] = "idle"

-----------------------------------------------------------------------------
(* Progress: the scheduler keeps running every caller that can take a step *)
(* of its operation, and every transfer in flight returns.                 *)

FairSpec == Spec /\ \A t \in Threads : WF_vars(DeviceStep(t, ZeroOrAll, TwoBytes))

\* C9 (as claimed): no caller waits for the lock while holding it, and a
\* caller that holds the lock eventually releases it.
C9_NoDeadlock ==
    /\ [](\A t \in Threads : pc[t] = "lock" => mutex.holder # t)
    /\ \A t \in Threads : (mutex.holder = t) ~> (mutex.holder # t)

-----------------------------------------------------------------------------
(* One caller reading: spi_read for every buffer length up to MaxReadLen,  *)
(* the transport delivering nothing, one byte or all of each chunk.        *)

NextRead ==
    \/ \E n \in 0..MaxReadLen : spi_read(1, n)
    \/ Lock(1)
    \/ spi_read_header(1)
    \/ spi_read_header_done(1)
    \/ spi_read_loop(1)
    \/ spi_read_chunk_done(1, ReadCounts)

SpecRead == Init /\ [][NextRead]_vars

CeilDiv(n, d) == (n + d - 1) \div d

\* C5: with every bulk read delivering exactly what was requested, spi_read
\* of n bytes writes one header and then makes exactly ceil(n/64) bulk
\* reads: each request is at most 64 bytes, the i-th is min(64, n-64(i-1)),
\* so the last one asks for n - 64*(ceil(n/64)-1) bytes (n = 130: 3 reads,
\* the last of 2 bytes).
C5_ReadChunks ==
    /\ [](\A t \in Threads : \A x \in Mine(t) :
             op[t].inner = "spi_read" /\ x.kind = "read_bulk" =>
                /\ x.req >= 1 /\ x.req <= 64
                /\ loc[t].hdrs = 1
                /\ ~loc[t].short =>
                      /\ loc[t].nreads <= CeilDiv(op[t].len, 64)
                      /\ x.req = IF op[t].len - 64 * (loc[t].nreads - 1) > 64
                                 THEN 64
                                 ELSE op[t].len - 64 * (loc[t].nreads - 1))
    /\ [][\A t \in Threads :
             (/\ op[t].inner = "spi_read"
              /\ Returns(t)
              /\ res'[t].kind = "Ok"
              /\ ~loc[t].short)
             => /\ loc[t].hdrs = 1
                /\ loc[t].nreads = CeilDiv(op[t].len, 64)
                /\ op[t].len > 0 =>
                      loc[t].lastReq = op[t].len - 64 * (CeilDiv(op[t].len, 64) - 1)]_vars

\* the third and last read of a 130-byte spi_read is in flight: 2 bytes
C5_Witness ==
    \E x \in inflight :
        /\ op[x.owner].inner = "spi_read" /\ op[x.owner].len = 130
        /\ x.kind = "read_bulk" /\ x.req = 2
        /\ loc[x.owner].nreads = 3
        /\ loc[x.owner].index = 128
        /\ ~loc[x.owner].short

\* C20: in spi_read on a buffer of n bytes, with each read returning
\* between 0 and the bytes asked for, the index stays within 0..n; a chunk
\* in flight asks for 1 to 64 bytes, exactly min(64, n - index), and
\* index + request is within the buffer; and a successful return reports n.
C20_ReadIndexBounds ==
    /\ [](\A t \in Threads : op[t].inner = "spi_read" /\ pc[t] # "idle" =>
            /\ loc[t].index \in 0..op[t].len
            /\ pc[t] = "rd_chunk" =>
                  \A x \in Mine(t) :
                     /\ x.kind = "read_bulk"
                     /\ x.req \in 1..64
                     /\ loc[t].index + x.req <= op[t].len
                     /\ x.req = 64 \/ loc[t].index + x.req = op[t].len)
    /\ [][\A t \in Threads :
             op[t].inner = "spi_read" /\ pc[t] # "idle" /\ pc'[t] = "idle" /\ res'[t].kind = "Ok"
             => /\ res'[t].val = op[t].len
                /\ loc[t].index = op[t].len
                /\ pc[t] = "rd_loop"]_vars

\* after short reads the index of a 130-byte read stands at 129 and one
\* more byte is asked for
C20_Witness ==
    /\ pc[1] = "rd_chunk" /\ op[1].len = 130
    /\ loc[1].index = 129 /\ loc[1].short
    /\ \E x \in inflight : x.req = 1

\* the steps of a read under way: taking the lock, the header write, the
\* loop test and the return of each transfer
ReadStep ==
    \/ Lock(1)
    \/ spi_read_header(1)
    \/ spi_read_header_done(1)
    \/ spi_read_loop(1)
    \/ spi_read_chunk_done(1, ReadCounts)

\* the caller keeps running and every physical transfer returns
FairSpecRead == SpecRead /\ WF_vars(ReadStep)

\* C21 (as claimed): spi_read always terminates. With every physical bulk
\* read returning, a read under way eventually returns to its caller with
\* the requested number of bytes or a transport error, and the session lock
\* is released; this includes transports that return successful reads of
\* 0 bytes.
C21_ReadTerminates ==
    (pc[1] # "idle" /\ op[1].inner = "spi_read")
        ~> (/\ pc[1] = "idle"
            /\ mutex.holder = 0
            /\ res[1].kind \in {"Ok", "Usb"})

-----------------------------------------------------------------------------
(* One caller writing: spi_write and spi_write_read for every buffer of    *)
(* up to MaxWriteLen bytes and every read length up to MaxReadLen, each    *)
(* bulk read delivering nothing, one byte or all it asked for.             *)

WriteInputs == SeqsUpTo({0, 255}, MaxWriteLen)

NextWrite ==
    \/ \E buff \in WriteInputs : spi_write(1, buff)
    \/ \E buff \in WriteInputs, n \in 0..MaxReadLen : spi_write_read(1, buff, n)
    \/ Lock(1)
    \/ spi_write_issue(1)
    \/ spi_write_done(1)
    \/ spi_write_read_done(1, ReadCounts)

SpecWrite == Init /\ [][NextWrite]_vars

\* the bulk write of an operation with code c on the buffer buff: the
\* header with the length in byte 4, then the buffer
CommandBytes(c, buff) == <<0, 0, c, 0, Len(buff), 0, 0, 0>> \o buff

\* C13: spi_write_read(out, in) first has exactly one bulk write in flight,
\* the WriteRead header with length len(out) followed by out; after it one
\* bulk read asking for the whole of in, also when in is longer than 64
\* bytes, on the address of the write endpoint; the operation ends with
\* that read, returning its byte count, and never issues a second read.
C13_WriteReadOneRead ==
    /\ [](\A t \in Threads : op[t].inner = "spi_write_read" =>
            /\ pc[t] = "wr" =>
                  /\ inflight = {[owner |-> t, kind |-> "write_bulk", ep |-> 1,
                                  request |-> 0, data |-> CommandBytes(2, op[t].buf),
                                  req |-> 0, status |-> "pending"]}
                  /\ loc[t].ios = 1 /\ loc[t].nreads = 0
            /\ pc[t] = "wrrd_rd" =>
                  /\ inflight = {[owner |-> t, kind |-> "read_bulk", ep |-> 1,
                                  request |-> 0, data |-> <<>>, req |-> op[t].len,
                                  status |-> "pending"]}
                  /\ loc[t].ios = 2 /\ loc[t].nreads = 1 /\ loc[t].hdrs = 1
            /\ pc[t] \in {"lock", "held", "wr", "wrrd_rd"})
    /\ [][\A t \in Threads : op[t].inner = "spi_write_read" =>
             /\ pc[t] = "wrrd_rd" => pc'[t] \in {"wrrd_rd", "idle"}
             /\ Returns(t) /\ res'[t].kind = "Ok" =>
                   /\ pc[t] = "wrrd_rd"
                   /\ res'[t].val \in 0..op[t].len
                   /\ inflight' = {}]_vars

\* the single read of a spi_write_read into a 130-byte buffer is in flight
C13_Witness ==
    /\ pc[1] = "wrrd_rd"
    /\ op[1].len = 130 /\ op[1].buf = <<255, 0>>
    /\ \E x \in inflight : x.kind = "read_bulk" /\ x.req = 130

\* C14: spi_write(buf) has exactly one transfer in flight in its whole
\* course: a bulk write of 8 + len(buf) bytes, the Write header with length
\* len(buf) followed by the bytes of buf in order; it returns when that
\* write returns and never has a bulk read in flight.
C14_WriteOneTransfer ==
    /\ [](\A t \in Threads : op[t].inner = "spi_write" =>
            /\ pc[t] \in {"lock", "held", "wr"}
            /\ \A x \in inflight : x.kind = "write_bulk"
            /\ pc[t] = "wr" =>
                  /\ inflight = {[owner |-> t, kind |-> "write_bulk", ep |-> 1,
                                  request |-> 0, data |-> CommandBytes(1, op[t].buf),
                                  req |-> 0, status |-> "pending"]}
                  /\ \A x \in inflight : Len(x.data) = 8 + Len(op[t].buf)
                  /\ loc[t].ios = 1 /\ loc[t].nreads = 0
            /\ pc[t] \in {"lock", "held"} => inflight = {} /\ loc[t].ios = 0)
    /\ [][\A t \in Threads : op[t].inner = "spi_write" =>
             /\ pc[t] = "wr" => pc'[t] \in {"wr", "idle"}
             /\ Returns(t) => pc[t] = "wr" /\ inflight' = {}]_vars

\* the write of spi_write([0x00, 0xff]) is in flight: ten bytes
C14_Witness ==
    /\ pc[1] = "wr" /\ op[1].inner = "spi_write"
    /\ \E x \in inflight : x.data = <<0, 0, 1, 0, 2, 0, 0, 0, 0, 255>>

-----------------------------------------------------------------------------
(* Failing transfers: the first caller runs every operation of the         *)
(* session, the transport may fail any transfer before the call returns,   *)
(* and a second caller asks for the version in between.                    *)

FailPins == {0, 10, 11}

NextFail ==
    \/ \E index \in FailPins : gpio_out(1, index, "PushPull", "High")
    \/ \E index \in FailPins : gpio_in(1, index)
    \/ \E pin \in FailPins : set_gpio_mode_level(1, pin, "OpenDrain", "Low")
    \/ \E h \in handles : set_high(1, h)
    \/ \E h \in handles : set_low(1, h)
    \/ get_gpio_values(1)
    \/ \E pin \in FailPins : get_gpio_level(1, pin)
    \/ \E h \in handles : is_high(1, h)
    \/ \E h \in handles : is_low(1, h)
    \/ \E t \in Threads : version(t)
    \/ \E n \in ReadLens : spi_read(1, n)
    \/ \E buff \in WriteBufs : spi_write(1, buff)
    \/ \E buff \in WriteBufs : spi_write_read(1, buff, 1)
    \/ spi(1)
    \/ reset(1)
    \/ \E t \in Threads : TransferFails(t)
    \/ \E t \in Threads : DeviceStep(t, ReadCounts, TwoBytes)

SpecFail == Init /\ [][NextFail]_vars

\* C15: a transfer the transport has failed is the only one in flight and
\* its caller holds the lock; the caller's next step returns the Usb error,
\* leaves nothing in flight, issues no other transfer, changes neither the
\* allocation table nor the objects, and leaves the lock free and unpoisoned;
\* a caller that has returned has nothing in flight and does not hold the lock.
C15_NoRetry ==
    /\ [](\A t \in Threads :
            /\ \A x \in Mine(t) : x.status = "failed" =>
                  inflight = {x} /\ mutex.holder = t /\ pc[t] \notin {"idle", "lock", "held"}
            /\ pc[t] = "idle" => Mine(t) = {} /\ mutex.holder # t)
    /\ [][\A t \in Threads : \A x \in Mine(t) :
             x.status = "failed" =>
                \/ pc'[t] = pc[t] /\ inflight' = inflight
                \/ /\ pc'[t] = "idle"
                   /\ res'[t].kind = "Usb"
                   /\ inflight' = {}
                   /\ mutex' = [holder |-> 0, poisoned |-> mutex.poisoned]
                   /\ ~mutex.poisoned
                   /\ gpio_allocated' = gpio_allocated
                   /\ handles' = handles
                   /\ spis' = spis]_vars

\* the first caller's operation has returned the Usb error and the second
\* caller, which waited for the lock, now reads the version
C15_Witness ==
    /\ pc[1] = "idle" /\ res[1].kind = "Usb"
    /\ pc[2] = "ctl_rd" /\ mutex.holder = 2
    /\ \E x \in inflight : x.owner = 2 /\ x.status = "pending"

\* C19: the allocation table changes only in the step in which a gpio_out
\* or gpio_in returns Ok from its successful write, and then only the entry
\* of the claimed pin goes from clear to set; every other return (a claim
\* turned down as busy, a claim whose write failed, any other operation),
\* every panic and every step inside an operation leaves the whole table as
\* it was, and after a claim whose write the transport failed the pin is
\* still free.
C19_AllocationFrame ==
    [][/\ gpio_allocated' # gpio_allocated =>
             \E t \in Threads :
                /\ op[t].inner \in {"gpio_out", "gpio_in"}
                /\ pc[t] = "claim_wr" /\ pc'[t] = "idle"
                /\ res'[t].kind = "Ok"
                /\ \A x \in Mine(t) : x.status = "pending"
                /\ ~gpio_allocated[op[t].pin]
                /\ gpio_allocated'[op[t].pin]
                /\ \A p \in Pins \ {op[t].pin} : gpio_allocated'[p] = gpio_allocated[p]
       /\ \A t \in Threads :
             (/\ pc[t] = "claim_wr" /\ pc'[t] = "idle"
              /\ \E x \in Mine(t) : x.status = "failed")
             => /\ gpio_allocated' = gpio_allocated
                /\ ~gpio_allocated'[op[t].pin]
                /\ res'[t].kind = "Usb"
       /\ \A t \in Threads :
             pc'[t] = "idle" /\ pc[t] # "idle" /\ res'[t].kind # "Ok"
             => gpio_allocated' = gpio_allocated
       /\ DOMAIN gpio_allocated' = 0..10]_vars

\* pin 10 is claimed, and the write of a claim of pin 0 has been failed by
\* the transport: pin 0 is free
C19_Witness ==
    /\ gpio_allocated[10] /\ ~gpio_allocated[0]
    /\ pc[1] = "claim_wr" /\ op[1].pin = 0
    /\ \E x \in inflight : x.status = "failed"

-----------------------------------------------------------------------------
(* Transactions: the first caller creates an Spi object and runs exec on   *)
(* every list of up to MaxOps operations of the four kinds, the transport  *)
(* may fail any transfer, and a second caller asks for the version.        *)

ExecOperations ==
    {[kind |-> k, n |-> 1, data |-> <<7>>] :
        k \in {"Write", "Transfer", "TransferInplace", "Read"}}

NextExec ==
    \/ spi(1)
    \/ \E operations \in SeqsUpTo(ExecOperations, MaxOps) : Spi_exec(1, operations)
    \/ version(2)
    \/ \E t \in Threads : TransferFails(t)
    \/ \E t \in Threads :
          \/ Lock(t)
          \/ inner_control_issue(t)
          \/ inner_control_done(t)
          \/ read_control_issue(t)
          \/ read_control_done(t, TwoBytes)
          \/ spi_write_issue(t)
          \/ spi_write_done(t)
          \/ spi_write_read_done(t, ZeroOrAll)

SpecExec == Init /\ [][NextExec]_vars

\* the device call of an operation of the list, by its kind
ExecCall(o) ==
    CASE o.kind = "Write" -> <<"spi_write", o.data, 0>>
      [] o.kind = "Transfer" -> <<"spi_write_read", o.data, o.n>>
      [] o.kind = "TransferInplace" -> <<"spi_write_read", o.data, Len(o.data)>>
      [] o.kind = "Read" -> <<"spi_write_read", [i \in 1..o.n |-> 0], o.n>>

InExec(t) == pc[t] # "idle" /\ op[t].api = "exec"

\* C18: exec is always at one position of its list and runs the device call
\* of the operation at that position; it waits for the lock anew for each
\* operation, holding neither the lock nor a transfer while it waits; it
\* moves to the next position only from the successful end of the current
\* operation, releasing the lock in that step; it returns Ok only from the
\* last position; and when the transport has failed its transfer its next
\* step returns the Usb error with the rest of the list not run.
C18_ExecPerOperationLock ==
    /\ [](\A t \in Threads : InExec(t) =>
            /\ op[t].pos \in 1..Len(op[t].ops)
            /\ <<op[t].inner, op[t].buf, op[t].len>> = ExecCall(op[t].ops[op[t].pos])
            /\ pc[t] = "lock" => mutex.holder # t /\ Mine(t) = {}
            /\ pc[t] # "lock" => mutex.holder = t)
    /\ [][\A t \in Threads : InExec(t) /\ pc[t] # "lock" =>
             \/ /\ op'[t] = op[t]
                /\ pc'[t] # "lock"
             \/ /\ pc'[t] = "lock"
                /\ op'[t].pos = op[t].pos + 1
                /\ op'[t].ops = op[t].ops
                /\ op'[t].api = "exec"
                /\ pc[t] \in {"wr", "wrrd_rd"}
                /\ \A x \in Mine(t) : x.status = "pending"
                /\ mutex'.holder = 0
                /\ inflight' = {}
             \/ /\ pc'[t] = "idle"
                /\ mutex'.holder = 0
                /\ inflight' = {}
                /\ res'[t].kind \in {"Ok", "Usb"}
                /\ res'[t].kind = "Ok" =>
                      op[t].pos = Len(op[t].ops) /\ \A x \in Mine(t) : x.status = "pending"
                /\ (\E x \in Mine(t) : x.status = "failed") => res'[t].kind = "Usb"]_vars

\* exec([Write, Read]) has done its Write and waits for the lock for its
\* Read while the other caller holds the lock for a version read
C18_Witness ==
    /\ pc[1] = "lock" /\ op[1].api = "exec"
    /\ Len(op[1].ops) = 2 /\ op[1].pos = 2
    /\ op[1].ops[1].kind = "Write" /\ op[1].ops[2].kind = "Read"
    /\ pc[2] = "ctl_rd" /\ mutex.holder = 2

-----------------------------------------------------------------------------
(* The codec functions on their own: the bulk header for lengths over the  *)
(* whole u32 range, and the GPIO level decoding for every pin.             *)

LimbSamples == {0, 1, 130, 255, 256, 4660, 22136, 32768, 65535}
ByteSamples == {0, 1, 2, 4, 8, 16, 32, 64, 128, 90, 255}
BulkCodes == {TransferCommand_Read, TransferCommand_Write, TransferCommand_WriteRead}

InitCodec ==
    /\ gpio_allocated = [p \in Pins |-> FALSE]
    /\ mutex = [holder |-> 0, poisoned |-> FALSE]
    /\ handles = {}
    /\ spis = 0
    /\ pc = [t \in Threads |-> "idle"]
    /\ op = [t \in Threads |-> NoOp]
    /\ loc = [t \in Threads |-> NoLoc]
    /\ res = [t \in Threads |-> NoRes]
    /\ inflight = {}
    /\ ctor = NoCtor
    /\ \/ \E code \in BulkCodes, hi \in LimbSamples, lo \in LimbSamples :
             codec = [NoCodec EXCEPT !.fn = "header", !.code = code,
                                     !.len = [hi |-> hi, lo |-> lo]]
       \/ \E b0 \in ByteSamples, b1 \in ByteSamples, pin \in Pins :
             codec = [NoCodec EXCEPT !.fn = "gpio", !.buff = <<b0, b1>>, !.pin = pin]
       \/ \E pin \in 0..MaxPin, mode \in GpioModes, level \in GpioLevelNames :
             codec = [NoCodec EXCEPT !.fn = "gpio_cmd", !.pin = pin, !.mode = mode,
                                     !.lvl = level]

\* the header as spi_read, spi_write and spi_write_read build it
encode_header ==
    /\ codec.fn = "header" /\ ~codec.done
    /\ codec' = [codec EXCEPT !.done = TRUE, !.header = BulkHeader(codec.code, codec.len)]
    /\ UNCHANGED <<gpio_allocated, mutex, handles, spis, pc, op, loc, res, inflight, ctor>>

\* the response of GetGpioValues as get_gpio_values and get_gpio_level read it
decode_gpio ==
    /\ codec.fn = "gpio" /\ ~codec.done
    /\ codec' = [codec EXCEPT !.done = TRUE,
                              !.values = DecodeGpioValues(codec.buff),
                              !.level = PinLevel(DecodeGpioValues(codec.buff), codec.pin)]
    /\ UNCHANGED <<gpio_allocated, mutex, handles, spis, pc, op, loc, res, inflight, ctor>>

\* the payload of SetGpioModeAndLevel as set_gpio_mode_level builds it
encode_gpio_cmd ==
    /\ codec.fn = "gpio_cmd" /\ ~codec.done
    /\ codec' = [codec EXCEPT !.done = TRUE,
                              !.cmd = GpioModeLevelCmd(codec.pin, codec.mode, codec.lvl)]
    /\ UNCHANGED <<gpio_allocated, mutex, handles, spis, pc, op, loc, res, inflight, ctor>>

NextCodec == encode_header \/ decode_gpio \/ encode_gpio_cmd

SpecCodec == InitCodec /\ [][NextCodec]_vars

\* C6: for every length L in 0..2^32-1 and every bulk operation code, the
\* header is 8 bytes: byte 2 is the code, bytes 0, 1 and 3 are zero, and
\* bytes 4..8 are L in little-endian order, so reading them back as a
\* little-endian u32 gives L.
C6_HeaderLayout ==
    codec.fn = "header" /\ codec.done =>
        LET h == codec.header IN
        /\ Len(h) = 8
        /\ h[1] = 0 /\ h[2] = 0 /\ h[4] = 0
        /\ h[3] = codec.code
        /\ \A i \in 5..8 : h[i] \in 0..255
        /\ h[5] + 256 * h[6] = codec.len.lo
        /\ h[7] + 256 * h[8] = codec.len.hi

\* the Read header for L = 0x12345678
C6_Witness ==
    /\ codec.done
    /\ codec.code = TransferCommand_Read
    /\ codec.len = [hi |-> 4660, lo |-> 22136]
    /\ codec.header = <<0, 0, 0, 0, 120, 86, 52, 18>>

PinBit == <<3, 4, 5, 6, 7, 8, 10, 11, 12, 13, 14>>

\* C7: the two response bytes [b0, b1] are read as b0*256 + b1, and the
\* level of pin 0..10 is the bit 3,4,5,6,7,8,10,11,12,13,14 of that value;
\* [0x00,0x08] gives pin 0 alone, [0x40,0x00] gives pin 10 alone.
C7_GpioDecode ==
    codec.fn = "gpio" /\ codec.done =>
        LET v == codec.buff[1] * 256 + codec.buff[2] IN
        /\ codec.level = (((v \div (2 ^ PinBit[codec.pin + 1])) % 2) = 1)
        /\ codec.buff = <<0, 8>> => (codec.level = (codec.pin = 0))
        /\ codec.buff = <<64, 0>> => (codec.level = (codec.pin = 10))

\* the bytes [0x40, 0x00] decoded for pin 10
C7_Witness ==
    /\ codec.fn = "gpio" /\ codec.done
    /\ codec.buff = <<64, 0>> /\ codec.pin = 10
    /\ codec.level

\* the reading of a 3-byte payload by the code table of the claim
ModeOfCode(b) == CASE b = 0 -> "Input" [] b = 1 -> "OpenDrain" [] b = 2 -> "PushPull" [] OTHER -> "invalid"
LevelOfCode(b) == CASE b = 0 -> "Low" [] b = 1 -> "High" [] OTHER -> "invalid"
DecodeGpioCmd(cmd) == <<cmd[1], ModeOfCode(cmd[2]), LevelOfCode(cmd[3])>>

\* C11: for every pin in 0..10, every mode and every level the payload is
\* the 3 bytes [pin, mode, level] with Input = 0, OpenDrain = 1, PushPull = 2,
\* Low = 0, High = 1; decoding it gives the same triple back, and no other
\* triple encodes to the same payload.
C11_GpioCmdRoundTrip ==
    codec.fn = "gpio_cmd" /\ codec.done =>
        /\ Len(codec.cmd) = 3
        /\ \A i \in 1..3 : codec.cmd[i] \in 0..255
        /\ codec.cmd[1] = codec.pin
        /\ DecodeGpioCmd(codec.cmd) = <<codec.pin, codec.mode, codec.lvl>>
        /\ \A pin \in 0..MaxPin, mode \in GpioModes, level \in GpioLevelNames :
              GpioModeLevelCmd(pin, mode, level) = codec.cmd
              => <<pin, mode, level>> = <<codec.pin, codec.mode, codec.lvl>>

\* the payload for pin 3, PushPull, High
C11_Witness ==
    /\ codec.fn = "gpio_cmd" /\ codec.done
    /\ codec.pin = 3 /\ codec.mode = "PushPull" /\ codec.lvl = "High"
    /\ codec.cmd = <<3, 2, 1>>

-----------------------------------------------------------------------------
(* Session construction: Cp2130::new from the endpoint scan on, and        *)
(* Endpoint::configure (device.rs).  The descriptor tree is the sequence   *)
(* of its endpoint descriptors in scan order.                              *)

TransferTypes == {"Control", "Isochronous", "Bulk", "Interrupt"}
Directions == {"In", "Out"}

\* config_desc.number(): the bConfigurationValue of the single configuration
ConfigNumbers == {1, 2}

\* the k-th endpoint descriptor of a tree: its interface and a distinct address
Descriptor(c, k, tt, dir) ==
    [config |-> c, transfer_type |-> tt, direction |-> dir, iface |-> k - 1, setting |-> 0,
     address |-> IF dir = "In" THEN 128 + k ELSE k]

Trees ==
    UNION {{[k \in 1..n |-> Descriptor(c, k, f[k][1], f[k][2])] :
               f \in [1..n -> TransferTypes \X Directions]} :
           <<c, n>> \in ConfigNumbers \X (0..MaxEndpoints)}

InitNew ==
    /\ gpio_allocated = [p \in Pins |-> FALSE]
    /\ mutex = [holder |-> 0, poisoned |-> FALSE]
    /\ handles = {}
    /\ spis = 0
    /\ pc = [t \in Threads |-> "idle"]
    /\ op = [t \in Threads |-> NoOp]
    /\ loc = [t \in Threads |-> NoLoc]
    /\ res = [t \in Threads |-> NoRes]
    /\ inflight = {}
    /\ codec = NoCodec
    /\ \E tree \in Trees : ctor = [NoCtor EXCEPT !.stage = "scan", !.tree = tree, !.i = 1]

\* a match that takes the bulk endpoints the wrong way round
Role_swapped(transfer_type, direction) ==
    CASE transfer_type = "Control" -> "control"
      [] transfer_type = "Bulk" /\ direction = "In" -> "write"
      [] transfer_type = "Bulk" /\ direction = "Out" -> "read"
      [] OTHER -> "none"

\* match (endpoint_desc.transfer_type(), endpoint_desc.direction())
Role(transfer_type, direction) ==
    CASE transfer_type = "Control" -> "control"
      [] transfer_type = "Bulk" /\ direction = "In" -> "read"
      [] transfer_type = "Bulk" /\ direction = "Out" -> "write"
      [] OTHER -> "none"

\* let e = Endpoint { config, iface, setting, address }
EndpointOf(d) ==
    [config |-> d.config, iface |-> d.iface, setting |-> d.setting,
     address |-> d.address]

NewFrame == <<gpio_allocated, mutex, handles, spis, pc, op, loc, res, inflight, codec>>

\* a role that keeps the endpoint it found first
Assign_keep_first(slot, e) == IF slot = <<>> THEN <<e>> ELSE slot

\* control = Some(e) / read = Some(e) / write = Some(e): the role is overwritten
Assign(slot, e) == <<e>>

\* one endpoint descriptor of the scan
new_scan ==
    /\ ctor.stage = "scan"
    /\ ctor.i <= Len(ctor.tree)
    /\ LET d == ctor.tree[ctor.i]
           e == EndpointOf(d)
           role == Role(d.transfer_type, d.direction)
       IN ctor' = [ctor EXCEPT !.i = @ + 1,
                               !.control = IF role = "control" THEN Assign(@, e) ELSE @,
                               !.read = IF role = "read" THEN Assign(@, e) ELSE @,
                               !.write = IF role = "write" THEN Assign(@, e) ELSE @]
    /\ UNCHANGED NewFrame

\* after the scan: let control = Endpoint { config: 1, iface: 0, setting: 0, address: 0 }
new_control ==
    /\ ctor.stage = "scan"
    /\ ctor.i > Len(ctor.tree)
    /\ ctor' = [ctor EXCEPT !.control = <<HardCodedControl>>, !.stage = "write"]
    /\ UNCHANGED NewFrame

\* let write = match write { Some(c) => c, None => return Err(Error::Endpoint) }
new_write ==
    /\ ctor.stage = "write"
    /\ IF ctor.write = <<>>
       THEN ctor' = [ctor EXCEPT !.stage = "done", !.result = "Endpoint"]
       ELSE ctor' = [ctor EXCEPT !.stage = "kernel_driver_active", !.who = "write"]
    /\ UNCHANGED NewFrame

\* the endpoint Endpoint::configure runs on
Configured == IF ctor.who = "write" THEN ctor.write[1] ELSE ctor.read[1]

\* a call on the DeviceHandle and what it returned
Called(fn, arg, ret) ==
    Append(ctor.calls, [fn |-> fn, arg |-> arg, ok |-> ret # "Err", ret |-> ret])

\* a configuration that detaches whatever kernel_driver_active answered
AfterActive_always_detach(answer) ==
    CASE answer = "true" -> "detach_kernel_driver"
      [] answer = "false" -> "detach_kernel_driver"
      [] answer = "Err" -> "done"

\* if handle.kernel_driver_active(self.iface)? { detach } ; set_active_configuration
AfterActive(answer) ==
    CASE answer = "true" -> "detach_kernel_driver"
      [] answer = "false" -> "set_active_configuration"
      [] answer = "Err" -> "done"

\* if handle.kernel_driver_active(self.iface)?
configure_kernel_driver_active ==
    /\ ctor.stage = "kernel_driver_active"
    /\ \E answer \in {"true", "false", "Err"} :
          ctor' = [ctor EXCEPT
                      !.calls = Called("kernel_driver_active", Configured.iface, answer),
                      !.stage = AfterActive(answer),
                      !.result = IF answer = "Err" THEN "Usb" ELSE @]
    /\ UNCHANGED NewFrame

\* handle.detach_kernel_driver(self.iface)?
configure_detach_kernel_driver ==
    /\ ctor.stage = "detach_kernel_driver"
    /\ \E ok \in BOOLEAN :
          ctor' = [ctor EXCEPT
                      !.calls = Called("detach_kernel_driver", Configured.iface,
                                       IF ok THEN "Ok" ELSE "Err"),
                      !.stage = IF ok THEN "set_active_configuration" ELSE "done",
                      !.result = IF ok THEN @ ELSE "Usb"]
    /\ UNCHANGED NewFrame

\* handle.set_active_configuration(self.config)?  Ok(())
configure_set_active_configuration ==
    /\ ctor.stage = "set_active_configuration"
    /\ \E ok \in BOOLEAN :
          ctor' = [ctor EXCEPT
                      !.calls = Called("set_active_configuration", Configured.config,
                                       IF ok THEN "Ok" ELSE "Err"),
                      !.stage = IF ~ok THEN "done"
                                ELSE IF ctor.who = "write" THEN "read" ELSE "endpoints",
                      !.result = IF ok THEN @ ELSE "Usb"]
    /\ UNCHANGED NewFrame

\* let read = match read { Some(c) => c, None => return Err(Error::Endpoint) }
new_read ==
    /\ ctor.stage = "read"
    /\ IF ctor.read = <<>>
       THEN ctor' = [ctor EXCEPT !.stage = "done", !.result = "Endpoint"]
       ELSE ctor' = [ctor EXCEPT !.stage = "kernel_driver_active", !.who = "read"]
    /\ UNCHANGED NewFrame

\* let endpoints = Endpoints{control, write, read};  Ok(Self{..})
new_endpoints ==
    /\ ctor.stage = "endpoints"
    /\ ctor' = [ctor EXCEPT !.stage = "done", !.result = "Ok",
                            !.endpoints = <<[control |-> ctor.control[1],
                                             write |-> ctor.write[1],
                                             read |-> ctor.read[1]]>>]
    /\ UNCHANGED NewFrame

NextNew ==
    \/ new_scan
    \/ new_control
    \/ new_write
    \/ configure_kernel_driver_active
    \/ configure_detach_kernel_driver
    \/ configure_set_active_configuration
    \/ new_read
    \/ new_endpoints

SpecNew == InitNew /\ [][NextNew]_vars

\* the endpoints of a tree that are bulk endpoints of one direction
BulkEndpoints(tree, dir) ==
    {EndpointOf(tree[k]) : k \in {j \in 1..Len(tree) :
        tree[j].transfer_type = "Bulk" /\ tree[j].direction = dir}}

AllCallsOk == \A k \in 1..Len(ctor.calls) : ctor.calls[k].ok

\* C8 (as claimed): a tree without a Bulk/Out or without a Bulk/In endpoint
\* always makes the construction fail with the Endpoint error.
C8_MissingEndpointIsEndpointError ==
    (/\ ctor.stage = "done"
     /\ \/ BulkEndpoints(ctor.tree, "Out") = {}
        \/ BulkEndpoints(ctor.tree, "In") = {})
    => ctor.result = "Endpoint"

\* C8 (amended): with a Bulk/In and a Bulk/Out endpoint in the tree the
\* construction never fails with Endpoint, and when every configuration call
\* succeeds it yields a session with the hard-coded control endpoint
\* (1, 0, 0, 0) and discovered read and write endpoints.  Without a Bulk/Out
\* endpoint it fails with Endpoint before any configuration call.  With a
\* Bulk/Out but no Bulk/In endpoint it fails with Endpoint once the write
\* endpoint is configured, and with the Usb error of the failing call
\* otherwise.  No failure yields a session.
C8_EndpointResolution ==
    ctor.stage = "done" =>
        LET ins == BulkEndpoints(ctor.tree, "In")
            outs == BulkEndpoints(ctor.tree, "Out")
        IN /\ ctor.result \in {"Ok", "Usb", "Endpoint"}
           /\ (ctor.result = "Ok") = (ctor.endpoints # <<>>)
           /\ ctor.result = "Usb" => ~AllCallsOk
           /\ ins # {} /\ outs # {} =>
                 /\ ctor.result # "Endpoint"
                 /\ AllCallsOk => ctor.result = "Ok"
                 /\ ctor.result = "Ok" =>
                       /\ ctor.endpoints[1].control =
                             [config |-> 1, iface |-> 0, setting |-> 0, address |-> 0]
                       /\ ctor.endpoints[1].read \in ins
                       /\ ctor.endpoints[1].write \in outs
           /\ outs = {} => ctor.result = "Endpoint" /\ ctor.calls = <<>>
           /\ outs # {} /\ ins = {} =>
                 /\ ctor.result # "Ok"
                 /\ (ctor.result = "Endpoint") = AllCallsOk
                 /\ ctor.calls # <<>>

\* a tree of exactly one Bulk/In and one Bulk/Out endpoint gave a session
C8_Witness ==
    /\ ctor.stage = "done" /\ ctor.result = "Ok"
    /\ Len(ctor.tree) = 2
    /\ Cardinality(BulkEndpoints(ctor.tree, "In")) = 1
    /\ Cardinality(BulkEndpoints(ctor.tree, "Out")) = 1
    /\ ctor.endpoints[1].control = HardCodedControl

\* the positions among the first n descriptors of a tree that hold an
\* endpoint of the given transfer type and direction
Visited(tree, n, tt, dirs) ==
    {k \in 1..n : k <= Len(tree) /\ tree[k].transfer_type = tt /\ tree[k].direction \in dirs}

Last(ks) == CHOOSE k \in ks : \A j \in ks : j <= k

\* the role the scan holds after n descriptors: the endpoint visited last
LastSeen(tree, n, tt, dirs) ==
    IF Visited(tree, n, tt, dirs) = {} THEN <<>>
    ELSE LET d == tree[Last(Visited(tree, n, tt, dirs))]
         IN <<[config |-> d.config, iface |-> d.iface, setting |-> d.setting,
               address |-> d.address]>>

\* C16: after each descriptor of the scan the read role is the Bulk/In
\* endpoint visited last and the write role the Bulk/Out endpoint visited
\* last; a descriptor that is neither Control, Bulk/In nor Bulk/Out changes
\* no role; once the scan is over the control role is the hard-coded
\* endpoint (1, 0, 0, 0) whatever Control endpoints the tree holds, and a
\* session that is built carries these three roles.
C16_LastMatchWins ==
    /\ [](ctor.stage # "off" =>
            LET n == IF ctor.stage = "scan" THEN ctor.i - 1 ELSE Len(ctor.tree) IN
            /\ ctor.read = LastSeen(ctor.tree, n, "Bulk", {"In"})
            /\ ctor.write = LastSeen(ctor.tree, n, "Bulk", {"Out"})
            /\ ctor.stage = "scan" =>
                  ctor.control = LastSeen(ctor.tree, n, "Control", {"In", "Out"})
            /\ ctor.stage # "scan" =>
                  ctor.control = <<[config |-> 1, iface |-> 0, setting |-> 0, address |-> 0]>>
            /\ ctor.result = "Ok" =>
                  ctor.endpoints =
                     <<[control |-> [config |-> 1, iface |-> 0, setting |-> 0, address |-> 0],
                        write |-> LastSeen(ctor.tree, Len(ctor.tree), "Bulk", {"Out"})[1],
                        read |-> LastSeen(ctor.tree, Len(ctor.tree), "Bulk", {"In"})[1]]>>)
    /\ [][(/\ ctor.stage = "scan"
           /\ ctor.i <= Len(ctor.tree)
           /\ ctor.tree[ctor.i].transfer_type \in {"Isochronous", "Interrupt"})
          => /\ ctor'.control = ctor.control
             /\ ctor'.read = ctor.read
             /\ ctor'.write = ctor.write]_vars

\* a session built from a tree with two Bulk/In endpoints around a Bulk/Out
\* endpoint, in configuration 2: the read role is the third endpoint
C16_Witness ==
    /\ ctor.stage = "done" /\ ctor.result = "Ok"
    /\ Len(ctor.tree) = 3
    /\ Visited(ctor.tree, 3, "Bulk", {"In"}) = {1, 3}
    /\ ctor.tree[1].config = 2
    /\ ctor.endpoints[1].read.address = ctor.tree[3].address
    /\ ctor.endpoints[1].control.config = 1

\* a call as the log records it
Call(fn, arg, ret) == [fn |-> fn, arg |-> arg, ok |-> ret # "Err", ret |-> ret]

\* the call sequences of one endpoint's configuration that run to its end
Configures(e) ==
    {<<Call("kernel_driver_active", e.iface, "true"),
       Call("detach_kernel_driver", e.iface, "Ok"),
       Call("set_active_configuration", e.config, "Ok")>>,
     <<Call("kernel_driver_active", e.iface, "false"),
       Call("set_active_configuration", e.config, "Ok")>>}

\* those that end in a failing call
Aborts(e) ==
    {<<Call("kernel_driver_active", e.iface, "Err")>>,
     <<Call("kernel_driver_active", e.iface, "true"),
       Call("detach_kernel_driver", e.iface, "Err")>>,
     <<Call("kernel_driver_active", e.iface, "true"),
       Call("detach_kernel_driver", e.iface, "Ok"),
       Call("set_active_configuration", e.config, "Err")>>,
     <<Call("kernel_driver_active", e.iface, "false"),
       Call("set_active_configuration", e.config, "Err")>>}

\* those that are under way
Underway(e) ==
    {<<>>,
     <<Call("kernel_driver_active", e.iface, "true")>>,
     <<Call("kernel_driver_active", e.iface, "true"),
       Call("detach_kernel_driver", e.iface, "Ok")>>,
     <<Call("kernel_driver_active", e.iface, "false")>>}

\* C17: the calls made on the handle are those of the write endpoint's
\* configuration followed, once it has run to its end, by those of the read
\* endpoint's: kernel_driver_active on the endpoint's interface, then
\* detach_kernel_driver on it only after the answer true, then
\* set_active_configuration with the endpoint's configuration number, and
\* no other call; a failing call is the last call made and the
\* construction ends with its Usb error; a session is built only after both
\* configurations ran to their end.
C17_ConfigureOrder ==
    ctor.stage \notin {"off", "scan"} /\ ctor.calls # <<>> =>
        LET w == LastSeen(ctor.tree, Len(ctor.tree), "Bulk", {"Out"})[1]
            r == LastSeen(ctor.tree, Len(ctor.tree), "Bulk", {"In"})
            second == IF r = <<>> THEN {<<>>}
                      ELSE Configures(r[1]) \cup Aborts(r[1]) \cup Underway(r[1])
        IN /\ \/ ctor.calls \in Aborts(w) \cup (Underway(w) \ {<<>>})
              \/ \E a \in Configures(w), b \in second : ctor.calls = a \o b
           /\ (\E k \in 1..Len(ctor.calls) : ~ctor.calls[k].ok) =>
                 /\ ~ctor.calls[Len(ctor.calls)].ok
                 /\ \A k \in 1..(Len(ctor.calls) - 1) : ctor.calls[k].ok
                 /\ ctor.stage = "done" /\ ctor.result = "Usb" /\ ctor.endpoints = <<>>
           /\ ctor.result = "Ok" =>
                 /\ r # <<>>
                 /\ \E a \in Configures(w), b \in Configures(r[1]) : ctor.calls = a \o b

\* a session built after five calls: the write endpoint's interface had a
\* kernel driver, which was detached, the read endpoint's had none
C17_Witness ==
    /\ ctor.stage = "done" /\ ctor.result = "Ok"
    /\ Len(ctor.calls) = 5
    /\ ctor.calls[1].ret = "true" /\ ctor.calls[2].fn = "detach_kernel_driver"
    /\ ctor.calls[4].ret = "false" /\ ctor.calls[5].fn = "set_active_configuration"
    /\ ctor.calls[3].arg = 2
    /\ ctor.calls[1].arg # ctor.calls[4].arg

=============================================================================
